---- MODULE Spec2Model ----
(***************************************************************************)
(* Model of the heat-sheet highlighter: the record grammars of             *)
(* heat_sheet_highlighter.py (HeatSheet.Cut, HeatSheet.IndividualSwim,     *)
(* HeatSheet.RelaySwim, HeatSheet.Team), the HeatSheet document object     *)
(* with its four cached collections, and the annotation / removal steps    *)
(* of heat_sheet_highlighter.py and pdf_highlighter.py.                    *)
(*                                                                         *)
(* A text is a sequence of one-character strings.  Regular expressions are *)
(* values built by the constructors below and are matched by a             *)
(* backtracking matcher that lists the possible ends of a match in the     *)
(* order a backtracking engine tries them (greedy, leftmost alternative    *)
(* first), so that findall and fullmatch behave as the regex library's.    *)
(***************************************************************************)
EXTENDS Integers, Sequences, FiniteSets, TLC

VARIABLES
    parse,   \* the grammars applied to one page text: input, operation, result
    hs,      \* the HeatSheet object: file_name, pdf_data and the cached collections
    ret,     \* what the last operation on the HeatSheet returned
    disk,    \* the output files written by save_as
    annot,   \* one annotation step: the boxes search_for returned, what was added
    rem,     \* remove_highlght runs on one document
    run      \* a run of main / process_data over files and teams: position, handles

vars == <<parse, hs, ret, disk, annot, rem, run>>

(***************************************************************************)
(* Characters                                                              *)
(***************************************************************************)
NL == "\n"
Upper == {"A","B","C","D","E","F","G","H","I","J","K","L","M",
          "N","O","P","Q","R","S","T","U","V","W","X","Y","Z"}
Lower == {"a","b","c","d","e","f","g","h","i","j","k","l","m",
          "n","o","p","q","r","s","t","u","v","w","x","y","z"}
Digit == {"0","1","2","3","4","5","6","7","8","9"}
Word  == Upper \cup Lower \cup Digit \cup {"_"}
Space == {" ", NL, "\t", "\r", "\f"}

(***************************************************************************)
(* Regular expressions                                                     *)
(***************************************************************************)
Eps          == [t |-> "eps"]
Chr(S)       == [t |-> "chr", s |-> S]
NChr(S)      == [t |-> "nchr", s |-> S]
Dot          == [t |-> "dot"]
Cat(a, b)    == [t |-> "cat", a |-> a, b |-> b]
Alt(a, b)    == [t |-> "alt", a |-> a, b |-> b]
Opt(a)       == [t |-> "opt", a |-> a]
Star(a)      == [t |-> "star", a |-> a]
Rep(a, m, n) == [t |-> "rep", a |-> a, m |-> m, n |-> n]
Ahead(a)     == [t |-> "ahead", a |-> a]
Behind(a)    == [t |-> "behind", a |-> a]
Plus(a)      == Cat(a, Star(a))

RECURSIVE CatAll(_)
CatAll(rs) == IF rs = <<>> THEN Eps ELSE Cat(Head(rs), CatAll(Tail(rs)))

\* a literal string
RECURSIVE Lit(_)
Lit(cs) == IF cs = <<>> THEN Eps ELSE Cat(Chr({Head(cs)}), Lit(Tail(cs)))

\* "|".join(words): the empty pattern for no word
RECURSIVE AltAll(_)
AltAll(ws) ==
    IF ws = <<>> THEN Eps
    ELSE IF Len(ws) = 1 THEN Lit(ws[1])
    ELSE Alt(Lit(Head(ws)), AltAll(Tail(ws)))

RECURSIVE Ends(_, _, _)
RECURSIVE FlatEnds(_, _, _)
RECURSIVE BehindFrom(_, _, _, _)

\* the ends (index after the last character) of the matches of re in s that
\* start at index i, in the order backtracking finds them
Ends(re, s, i) ==
    CASE re.t = "eps"  -> <<i>>
      [] re.t = "chr"  -> IF i <= Len(s) /\ s[i] \in re.s THEN <<i + 1>> ELSE <<>>
      [] re.t = "nchr" -> IF i <= Len(s) /\ s[i] \notin re.s THEN <<i + 1>> ELSE <<>>
      [] re.t = "dot"  -> IF i <= Len(s) /\ s[i] # NL THEN <<i + 1>> ELSE <<>>
      [] re.t = "cat"  -> FlatEnds(re.b, s, Ends(re.a, s, i))
      [] re.t = "alt"  -> Ends(re.a, s, i) \o Ends(re.b, s, i)
      [] re.t = "opt"  -> Ends(re.a, s, i) \o <<i>>
      [] re.t = "star" ->
            FlatEnds(re, s, SelectSeq(Ends(re.a, s, i), LAMBDA e : e > i)) \o <<i>>
      [] re.t = "rep"  ->
            IF re.n = 0 THEN <<i>>
            ELSE FlatEnds(Rep(re.a, IF re.m > 0 THEN re.m - 1 ELSE 0, re.n - 1),
                          s, Ends(re.a, s, i))
                 \o (IF re.m = 0 THEN <<i>> ELSE <<>>)
      [] re.t = "ahead" -> IF Ends(re.a, s, i) # <<>> THEN <<i>> ELSE <<>>
      [] re.t = "behind" -> IF BehindFrom(re.a, s, i, i) THEN <<i>> ELSE <<>>

FlatEnds(re, s, es) ==
    IF es = <<>> THEN <<>>
    ELSE Ends(re, s, Head(es)) \o FlatEnds(re, s, Tail(es))

\* some match of re starting at j or earlier ends exactly at i
BehindFrom(re, s, i, j) ==
    IF j < 1 THEN FALSE
    ELSE \/ LET es == Ends(re, s, j) IN \E k \in 1..Len(es) : es[k] = i
         \/ BehindFrom(re, s, i, j - 1)

RECURSIVE FindallFrom(_, _, _)
FindallFrom(re, s, i) ==
    IF i > Len(s) + 1 THEN <<>>
    ELSE LET es == Ends(re, s, i) IN
         IF es = <<>> THEN FindallFrom(re, s, i + 1)
         ELSE <<SubSeq(s, i, Head(es) - 1)>>
              \o FindallFrom(re, s, IF Head(es) = i THEN i + 1 ELSE Head(es))

\* regex.findall for a pattern without capture groups: the non-overlapping
\* matches, leftmost first
findall(re, s) == FindallFrom(re, s, 1)

\* regex.fullmatch: some way of matching spans the whole string
fullmatch(re, s) ==
    LET es == Ends(re, s, 1) IN \E k \in 1..Len(es) : es[k] = Len(s) + 1

(***************************************************************************)
(* HeatSheet.Team                                                          *)
(***************************************************************************)
\* time = r"(?:(?:(?:\d*:)?\d{2}\.\d{2})|NT)"  (the same in all three classes)
time_pat ==
    Alt(CatAll(<<Opt(Cat(Star(Chr(Digit)), Chr({":"}))),
                 Rep(Chr(Digit), 2, 2), Chr({"."}), Rep(Chr(Digit), 2, 2)>>),
        Lit(<<"N", "T">>))

\* team = r"\w{1,5}(?=-)"
team_pat == Cat(Rep(Chr(Word), 1, 5), Ahead(Chr({"-"})))

\* lsc = r"(?<=-)[A-Z]{2}"
lsc_pat == Cat(Behind(Chr({"-"})), Rep(Chr(Upper), 2, 2))

\* team_code = f"{team}-{lsc}"
team_code_pat == CatAll(<<team_pat, Chr({"-"}), lsc_pat>>)

Raise(e) == [raised |-> e]

Team_from_string(string) ==
    IF ~fullmatch(team_code_pat, string) THEN Raise("ValueError")
    ELSE [raised |-> "",
          code |-> findall(team_pat, string)[1],
          lsc  |-> findall(lsc_pat, string)[1]]

\* Team.__str__
Team_str(team) == team.code \o <<"-">> \o team.lsc

(***************************************************************************)
(* HeatSheet.IndividualSwim                                                *)
(***************************************************************************)
Ind_age == Cat(Chr({" "}), Plus(Chr(Digit)))

\* name = r"[A-Z]\w*,\s[A-Z]\w*\s[A-Z]?"
Ind_name ==
    CatAll(<<Chr(Upper), Star(Chr(Word)), Chr({","}), Chr(Space),
             Chr(Upper), Star(Chr(Word)), Chr(Space), Opt(Chr(Upper))>>)

\* lane = f"(?<={name}\n)[1-9]"
Ind_lane == Cat(Behind(Cat(Ind_name, Chr({NL}))), Chr(Digit \ {"0"}))

\* individual_swim = f"{team_code}\n{time}\n{age}\n{name}\n{lane}\n"
individual_swim ==
    CatAll(<<team_code_pat, Chr({NL}), time_pat, Chr({NL}), Ind_age, Chr({NL}),
             Ind_name, Chr({NL}), Ind_lane, Chr({NL})>>)

\* f"{pattern}(?:{cut_codes})?\n?" when cuts is not empty
WithCuts(pattern, cuts) ==
    IF cuts # <<>>
    THEN CatAll(<<pattern, Opt(AltAll(cuts)), Opt(Chr({NL}))>>)
    ELSE pattern

\* cut_code = findall(cut_codes, string); if cut_code: cut_code = cut_code[0]
\* (an empty list and an empty string are both "no cut code")
FirstCut(cut_codes, string) ==
    LET found == findall(cut_codes, string) IN
    IF found # <<>> THEN found[1] ELSE <<>>

IndividualSwim_from_string(string, cuts) ==
    IF ~fullmatch(WithCuts(individual_swim, cuts), string) THEN Raise("ValueError")
    ELSE LET team == Team_from_string(findall(team_code_pat, string)[1]) IN
         IF team.raised # "" THEN team
         ELSE [raised   |-> "",
               kind     |-> "individual",
               team     |-> team,
               swimmer  |-> findall(Ind_name, string)[1],
               age      |-> findall(Ind_age, string)[1],
               time     |-> findall(time_pat, string)[1],
               lane     |-> findall(Ind_lane, string)[1],
               cut_code |-> FirstCut(AltAll(cuts), string)]

\* the list comprehension of findall: the first from_string that raises ends it
RECURSIVE Collect(_)
Collect(rs) ==
    IF rs = <<>> THEN [raised |-> "", swims |-> <<>>]
    ELSE IF Head(rs).raised # "" THEN [raised |-> Head(rs).raised, swims |-> <<>>]
    ELSE LET rest == Collect(Tail(rs)) IN
         IF rest.raised # "" THEN rest
         ELSE [raised |-> "", swims |-> <<Head(rs)>> \o rest.swims]

Matches(pattern, text, cuts) == findall(WithCuts(pattern, cuts), text)

IndividualSwim_findall(text, cuts) ==
    LET ms == Matches(individual_swim, text, cuts) IN
    Collect([k \in 1..Len(ms) |-> IndividualSwim_from_string(ms[k], cuts)])

\* IndividualSwim.__str__
IndividualSwim_str(swim) ==
    Team_str(swim.team) \o <<NL>> \o swim.time \o <<NL>> \o swim.age \o <<NL>>
    \o swim.swimmer \o <<NL>> \o swim.lane \o <<NL>>
    \o (IF swim.cut_code # <<>> THEN swim.cut_code \o <<NL>> ELSE <<>>)

(***************************************************************************)
(* HeatSheet.RelaySwim                                                     *)
(***************************************************************************)
Rel_relay_letter == Chr(Upper)

\* lane = f"(?<={team_code}\n)[1-9]"
Rel_lane == Cat(Behind(Cat(team_code_pat, Chr({NL}))), Chr(Digit \ {"0"}))

\* relay_swim = f"{relay_letter}\n{time}\n{team_code}\n{lane}\n"
relay_swim ==
    CatAll(<<Rel_relay_letter, Chr({NL}), time_pat, Chr({NL}), team_code_pat,
             Chr({NL}), Rel_lane, Chr({NL})>>)

\* cut_codes is assigned only under "if cuts:"; with no cuts the later
\* findall(cut_codes, string) reads an unbound local
RelaySwim_from_string(string, cuts) ==
    IF ~fullmatch(WithCuts(relay_swim, cuts), string) THEN Raise("ValueError")
    ELSE LET team == Team_from_string(findall(team_code_pat, string)[1]) IN
         IF team.raised # "" THEN team
         ELSE IF cuts = <<>> THEN Raise("UnboundLocalError")
         ELSE [raised   |-> "",
               kind     |-> "relay",
               team     |-> team,
               letter   |-> findall(Rel_relay_letter, string)[1],
               time     |-> findall(time_pat, string)[1],
               lane     |-> findall(Rel_lane, string)[1],
               cut_code |-> FirstCut(AltAll(cuts), string)]

RelaySwim_findall(text, cuts) ==
    LET ms == Matches(relay_swim, text, cuts) IN
    Collect([k \in 1..Len(ms) |-> RelaySwim_from_string(ms[k], cuts)])

\* RelaySwim.__str__
RelaySwim_str(swim) ==
    swim.letter \o <<NL>> \o swim.time \o <<NL>> \o Team_str(swim.team) \o <<NL>>
    \o swim.lane \o <<NL>>
    \o (IF swim.cut_code # <<>> THEN swim.cut_code \o <<NL>> ELSE <<>>)

\* f"{swim}"
Swim_str(swim) ==
    IF swim.kind = "relay" THEN RelaySwim_str(swim) ELSE IndividualSwim_str(swim)

(***************************************************************************)
(* HeatSheet.Cut                                                           *)
(***************************************************************************)
Cut_event_label   == CatAll(<<Chr({"#"}), Plus(Chr(Digit)), Star(Dot)>>)
Cut_event_sponsor == Cat(Lit(<<"S","p","o","n","s","o","r",":">>), Star(Dot))
Cut_cut_code      == Plus(Chr(Upper))
Cut_cut_code_description == Cat(Chr(Space), Star(Dot))

\* cut = f"{cut_code}(?:{cut_code_description})?\n{time}\n"
Cut_cut ==
    CatAll(<<Cut_cut_code, Opt(Cut_cut_code_description), Chr({NL}),
             time_pat, Chr({NL})>>)

\* event_header = f"{event_label}\n(?:{event_sponsor}\n)?(?:{cut})*"
Cut_event_header ==
    CatAll(<<Cut_event_label, Chr({NL}), Opt(Cat(Cut_event_sponsor, Chr({NL}))),
             Star(Cut_cut)>>)

Cut_from_string(string) ==
    IF ~fullmatch(Cut_cut, string) THEN Raise("ValueError")
    ELSE [raised      |-> "",
          code        |-> findall(Cut_cut_code, string)[1],
          time_string |-> findall(time_pat, string)[1]]

\* the codes of the cuts found in the event headers of a text
Cut_findall(text) ==
    LET event_headers == findall(Cut_event_header, text)
        cut_times(h)  == findall(Cut_cut, event_headers[h])
    IN  UNION { { Cut_from_string(cut_times(h)[k]).code :
                    k \in 1..Len(cut_times(h)) } :
                h \in 1..Len(event_headers) }

(***************************************************************************)
(* Page texts the grammars are applied to.  A text is an optional event    *)
(* header (a header line and its (code, time) pairs) followed by records,  *)
(* each printed one field per line as the text extractor delivers them.    *)
(***************************************************************************)
MaxPairs == 2
MaxRecs  == 2

HeaderLines ==
    << <<"#","1","2"," ","G","I","R","L","S"," ","1","0","0"," ","F","R","E","E">>,
       <<"#","3"," ","B","o","y","s"," ","5","0"," ","F","l","y">> >>

\* the cut lines of an event header: code, optional description, time
CutPairs ==
    << [code |-> <<"A","A","A","A">>, desc |-> <<>>, time |-> <<"1",":","0","5",".","0","0">>],
       [code |-> <<"A">>, desc |-> <<>>, time |-> <<"1",":","1","0",".","0","0">>],
       [code |-> <<"B">>, desc |-> <<" ","C","u","t">>, time |-> <<"N","T">>] >>

\* the records: kind, team line, time line, (age line, swimmer line,) lane
\* line, and the cut-code line printed after the lane (<<>>: none)
Records ==
    << [kind |-> "individual", team |-> <<"A","B","C","D","E","-","X","Y">>, time |-> <<"1",":","0","5",".","4","4">>, age |-> <<" ","1","5">>,
        swimmer |-> <<"D","o","e",","," ","J","a","n","e"," ","M">>, lane |-> <<"3">>, cut |-> <<>>],
       [kind |-> "individual", team |-> <<"A","B","C","D","E","-","X","Y">>, time |-> <<"1",":","0","5",".","4","4">>, age |-> <<" ","1","5">>,
        swimmer |-> <<"D","o","e",","," ","J","a","n","e"," ","M">>, lane |-> <<"3">>, cut |-> <<"A","A","A","A">>],
       [kind |-> "individual", team |-> <<"A","B","C","D","F","-","X","Y">>, time |-> <<"N","T">>, age |-> <<" ","9">>,
        swimmer |-> <<"R","o","e",","," ","A","l"," ">>, lane |-> <<"4">>, cut |-> <<>>],
       [kind |-> "individual", team |-> <<"H","U","N","T","-","Z","Z">>, time |-> <<"5","9",".","1","0">>, age |-> <<" ","1","2">>,
        swimmer |-> <<"F","o","x",","," ","A","m","y"," ","B">>, lane |-> <<"7">>, cut |-> <<"B">>],
       [kind |-> "relay", letter |-> <<"A">>, time |-> <<":","5","8",".","2","1">>, team |-> <<"X","Y","Z","-","Q","R">>,
        lane |-> <<"2">>, cut |-> <<>>],
       [kind |-> "relay", letter |-> <<"C">>, time |-> <<"1",":","5","8",".","2","1">>, team |-> <<"A","B","C","D","E","-","X","Y">>,
        lane |-> <<"5">>, cut |-> <<"A","A","A","A">>] >>

Line(cs) == cs \o <<NL>>
OptLine(cs) == IF cs = <<>> THEN <<>> ELSE Line(cs)

PairText(p) == Line(p.code \o p.desc) \o Line(p.time)

\* the printed form of a record on the page
RecordText(r) ==
    IF r.kind = "relay"
    THEN Line(r.letter) \o Line(r.time) \o Line(r.team) \o Line(r.lane) \o OptLine(r.cut)
    ELSE Line(r.team) \o Line(r.time) \o Line(r.age) \o Line(r.swimmer)
         \o Line(r.lane) \o OptLine(r.cut)

RECURSIVE Concat(_)
Concat(ss) == IF ss = <<>> THEN <<>> ELSE Head(ss) \o Concat(Tail(ss))

SeqsUpTo(S, n) == UNION { [1..k -> S] : k \in 0..n }

\* hdr = 0: no event header
Layouts ==
    { l \in [hdr : 0..Len(HeaderLines),
             pairs : SeqsUpTo(1..Len(CutPairs), MaxPairs),
             recs : SeqsUpTo(1..Len(Records), MaxRecs)] :
        /\ l.hdr = 0 => l.pairs = <<>>
        /\ l.hdr # 0 => Len(l.recs) <= 1 }

PageText(l) ==
    (IF l.hdr = 0 THEN <<>>
     ELSE Line(HeaderLines[l.hdr])
          \o Concat([k \in 1..Len(l.pairs) |-> PairText(CutPairs[l.pairs[k]])]))
    \o Concat([k \in 1..Len(l.recs) |-> RecordText(Records[l.recs[k]])])

\* cut-code lists as the cuts property delivers them: sorted, no duplicates
CutLists ==
    { <<>>, <<<<"A","A","A","A">>>>, <<<<"A">>, <<"A","A","A","A">>>>, <<<<"A">>, <<"B">>>> }

(***************************************************************************)
(* The grammars applied to a page text                                     *)
(***************************************************************************)
NoParse == [op |-> "idle"]

ParseInputs ==
    { [op |-> "input", layout |-> l, text |-> PageText(l), cuts |-> c] :
        l \in Layouts, c \in CutLists }

Strs(found) == [k \in 1..Len(found.swims) |-> Swim_str(found.swims[k])]

ApplyCut ==
    /\ parse.op = "input"
    /\ UNCHANGED <<hs, ret, disk, annot, rem, run>>
    /\ parse' = [parse EXCEPT !.op = "Cut.findall"] @@
                [codes |-> Cut_findall(parse.text)]

ApplyIndividual ==
    /\ parse.op = "input"
    /\ UNCHANGED <<hs, ret, disk, annot, rem, run>>
    /\ LET found == IndividualSwim_findall(parse.text, parse.cuts) IN
       parse' = [parse EXCEPT !.op = "IndividualSwim.findall"] @@
                [matched |-> Matches(individual_swim, parse.text, parse.cuts),
                 found |-> found, strs |-> Strs(found)]

ApplyRelay ==
    /\ parse.op = "input"
    /\ UNCHANGED <<hs, ret, disk, annot, rem, run>>
    /\ LET found == RelaySwim_findall(parse.text, parse.cuts) IN
       parse' = [parse EXCEPT !.op = "RelaySwim.findall"] @@
                [matched |-> Matches(relay_swim, parse.text, parse.cuts),
                 found |-> found, strs |-> Strs(found)]

(***************************************************************************)
(* list(...).sort() on strings                                             *)
(***************************************************************************)
\* the characters in code-point order
CodePoints ==
    <<"\t", NL, "\f", "\r", " ", "#", ",", "-", ".",
      "0","1","2","3","4","5","6","7","8","9", ":",
      "A","B","C","D","E","F","G","H","I","J","K","L","M",
      "N","O","P","Q","R","S","T","U","V","W","X","Y","Z", "_",
      "a","b","c","d","e","f","g","h","i","j","k","l","m",
      "n","o","p","q","r","s","t","u","v","w","x","y","z">>

Ord(c) == CHOOSE k \in 1..Len(CodePoints) : CodePoints[k] = c

RECURSIVE StrLess(_, _)
StrLess(a, b) ==
    IF b = <<>> THEN FALSE
    ELSE IF a = <<>> THEN TRUE
    ELSE IF Head(a) = Head(b) THEN StrLess(Tail(a), Tail(b))
    ELSE Ord(Head(a)) < Ord(Head(b))

\* cuts = list(cuts); cuts.sort()
RECURSIVE SortedList(_)
SortedList(S) ==
    IF S = {} THEN <<>>
    ELSE LET m == CHOOSE x \in S : \A y \in S \ {x} : StrLess(x, y)
         IN  <<m>> \o SortedList(S \ {m})

\* teams = [team.code for team in teams]; teams.sort()
RECURSIVE SortedCodes(_)
SortedCodes(T) ==
    IF T = {} THEN <<>>
    ELSE LET m == CHOOSE x \in T : \A y \in T : ~StrLess(y.code, x.code)
         IN  <<m.code>> \o SortedCodes(T \ {m})

(***************************************************************************)
(* The input files: per path, the text of each page                        *)
(***************************************************************************)
\* a swimmer of a team with the code of records 3 and another LSC
OtherLsc ==
    [kind |-> "individual", team |-> <<"A","B","C","D","F","-","Z","Z">>,
     time |-> <<"5","9",".","1","0">>, age |-> <<" ","1","1">>,
     swimmer |-> <<"L","e","e",","," ","B","o"," ">>, lane |-> <<"6">>, cut |-> <<>>]

Files ==
    ("meetA.pdf" :>
        << PageText([hdr |-> 2, pairs |-> <<1, 2>>, recs |-> <<1>>]),
           PageText([hdr |-> 0, pairs |-> <<>>, recs |-> <<3, 6>>]) >>)
    @@ ("meetB.pdf" :>
        << PageText([hdr |-> 0, pairs |-> <<>>, recs |-> <<1, 3>>]),
           PageText([hdr |-> 0, pairs |-> <<>>, recs |-> <<3>>])
           \o RecordText(OtherLsc) >>)
    @@ ("meetC.pdf" :>
        << PageText([hdr |-> 0, pairs |-> <<>>, recs |-> <<3, 5>>]) >>)

Paths == DOMAIN Files

\* team names a pass may be asked for
TeamNames == { <<"A","B","C","D","E">>, <<"A","B","C","D","F">>, <<"A","B","C","D">> }

\* the pages argument: the page numbers whose str() is in the tuple; {} is
\* None or the empty tuple (no filter)
PagesArgs == { {}, {0}, {1} }

Actions == {"Redact", "Frame", "Highlight", "Underline", "Squiggly", "Strikeout"}

(***************************************************************************)
(* The document library: handles, page texts, search_for                   *)
(***************************************************************************)
\* fitz.open: a fresh handle on the file, holding the annotations added
\* through it
pdf_open(path) == [path |-> path, annots |-> {}]

pageCount(doc) == Len(Files[doc.path])

\* self.pdf_data[pg].get_text("text"), pg counted from 0
get_text(doc, pg) == Files[doc.path][pg + 1]

\* Coordinates are in units of 1e-4: a line is 12 high, a character 6 wide.
LineNo(text, i) == Cardinality({ j \in 1..(i - 1) : text[j] = NL })
Col(text, i) ==
    LET nls == { j \in 1..(i - 1) : text[j] = NL }
    IN  IF nls = {} THEN i - 1
        ELSE i - 1 - (CHOOSE j \in nls : \A k \in nls : k <= j)

RECURSIVE SortedInts(_)
SortedInts(S) ==
    IF S = {} THEN <<>>
    ELSE LET m == CHOOSE x \in S : \A y \in S : x <= y
         IN  <<m>> \o SortedInts(S \ {m})

\* page.search_for(val): for every occurrence of val in the page text, one
\* box per printed line the occurrence covers, in reading order
search_for(text, val) ==
    LET n == Len(val)
        occ == IF n = 0 THEN {}
               ELSE { i \in 1..(Len(text) - n + 1) : SubSeq(text, i, i + n - 1) = val }
        \* first characters of the line pieces of the occurrences
        starts == { j \in 1..Len(text) :
                      /\ text[j] # NL
                      /\ \E i \in occ :
                            /\ j \in i..(i + n - 1)
                            /\ (j = i \/ text[j - 1] = NL) }
        ends(j) == { k \in j..Len(text) :
                       \/ k = Len(text) \/ text[k + 1] = NL
                       \/ \E i \in occ : j \in i..(i + n - 1) /\ k = i + n - 1 }
        last(j) == CHOOSE k \in ends(j) : \A m \in ends(j) : k <= m
        box(j) == [x0 |-> 60000 * Col(text, j), y0 |-> 120000 * LineNo(text, j),
                   x1 |-> 60000 * (Col(text, last(j)) + 1),
                   y1 |-> 120000 * (LineNo(text, j) + 1)]
        order == SortedInts(starts)
    IN  [k \in 1..Len(order) |-> box(order[k])]

(***************************************************************************)
(* The annotation step                                                     *)
(***************************************************************************)
\* round(y0, 3) on a coordinate in units of 1e-4: the nearest multiple of
\* 1e-3, a tie going to the even one
Round3(y) ==
    LET q == y \div 10
        r == y % 10
    IN  IF r < 5 THEN 10 * q
        ELSE IF r > 5 THEN 10 * (q + 1)
        ELSE IF q % 2 = 0 THEN 10 * q ELSE 10 * (q + 1)

\* __combine_area / combine_area: x from the extremes of the group, y from
\* its first box
combine_area(line_areas) ==
    LET ks == 1..Len(line_areas)
        lo == CHOOSE k \in ks : \A m \in ks : line_areas[k].x0 <= line_areas[m].x0
        hi == CHOOSE k \in ks : \A m \in ks : line_areas[k].x1 >= line_areas[m].x1
    IN  [x0 |-> line_areas[lo].x0, y0 |-> line_areas[1].y0,
         x1 |-> line_areas[hi].x1, y1 |-> line_areas[1].y1]

\* __annotate_area / annotate_area: the annotation added for an area
annotate_area(area, action) ==
    LET moved == IF action \in {"Squiggly", "Underline"}
                 THEN [area EXCEPT !.y0 = @ + 20000, !.y1 = @ + 20000]
                 ELSE area
    IN  [kind |-> CASE action = "Squiggly"  -> "squiggly"
                    [] action = "Underline" -> "underline"
                    [] action = "Strikeout" -> "strikeout"
                    [] action = "Frame"     -> "rect"
                    [] OTHER                -> "highlight",
         rect |-> moved]

\* HeatSheet.__annotate_matching_data, for one value: the areas grouped by
\* round(y0, 3), one combined area per group
HS_line_groups(matching_val_areas) ==
    LET ks == 1..Len(matching_val_areas)
        distinct_line_y_values == { Round3(matching_val_areas[k].y0) : k \in ks }
    IN  { combine_area(SelectSeq(matching_val_areas, LAMBDA val : Round3(val.y0) = y0)) :
            y0 \in distinct_line_y_values }

\* pdf_highlighter.annotate_matching_data, for one value: the areas grouped
\* by y0 itself
PH_line_groups(matching_val_areas) ==
    LET ks == 1..Len(matching_val_areas)
        distinct_line_y_values == { matching_val_areas[k].y0 : k \in ks }
    IN  { combine_area(SelectSeq(matching_val_areas, LAMBDA val : val.y0 = y0)) :
            y0 \in distinct_line_y_values }

Tagged(a, val) == [kind |-> a.kind, rect |-> a.rect, val |-> val]

\* HeatSheet.__annotate_matching_data: search[val] is page.search_for(val)
HS_annotate_matching_data(search, matched_values, action) ==
    [matches_found |-> Len(matched_values),
     added |-> UNION { { Tagged(annotate_area(area, action), matched_values[k]) :
                           area \in HS_line_groups(search[matched_values[k]]) } :
                       k \in 1..Len(matched_values) }]

\* pdf_highlighter.annotate_matching_data
PH_annotate_matching_data(search, matched_values, action) ==
    [matches_found |-> Len(matched_values),
     added |-> UNION { { Tagged(annotate_area(area, action), matched_values[k]) :
                           area \in PH_line_groups(search[matched_values[k]]) } :
                       k \in 1..Len(matched_values) }]

\* pdf_highlighter.redact_matching_data: a redaction per returned area, then
\* applied (nothing in either file calls it)
redact_matching_data(search, matched_values) ==
    [matches_found |-> Len(matched_values),
     added |-> UNION { { [kind |-> "redact", rect |-> search[matched_values[k]][j],
                          val |-> matched_values[k]] :
                           j \in 1..Len(search[matched_values[k]]) } :
                       k \in 1..Len(matched_values) }]

(***************************************************************************)
(* The HeatSheet object                                                    *)
(***************************************************************************)
MaxScans == 2

\* Python's None, and a value that is set
None    == [some |-> FALSE, v |-> <<>>]
Some(v) == [some |-> TRUE, v |-> v]

\* "if self.__cuts:" and the like: set, and not an empty list
Truthy(c) == c.some /\ c.v # <<>>

NoName == "None"

\* a count of scans that stops at MaxScans ("MaxScans or more")
Counted(n) == IF n < MaxScans THEN n + 1 ELSE MaxScans
ZeroScans == [cuts |-> 0, ind |-> 0, rel |-> 0, teams |-> 0]

Ok(o, val)     == [o |-> o, val |-> val, raised |-> ""]
Raised(o, e)   == [o |-> [o EXCEPT !.raised = e], val |-> <<>>, raised |-> e]

\* an open that forgets to clear the cut codes when the path changes
HeatSheet_open_keeps_cuts(o, fname) ==
    [(IF o.file_name # fname
      THEN [o EXCEPT !.file_name = fname, !.teams = None, !.ind = None,
                     !.rel = None, !.scans = ZeroScans]
      ELSE o) EXCEPT !.pdf_data = pdf_open(fname)]

\* HeatSheet.open; scans counts the computations since the caches were
\* cleared last
HeatSheet_open(o, fname) ==
    LET o1 == IF o.file_name # fname
              THEN [o EXCEPT !.file_name = fname, !.teams = None, !.cuts = None,
                             !.ind = None, !.rel = None, !.scans = ZeroScans]
              ELSE o
    IN  [o1 EXCEPT !.pdf_data = pdf_open(fname)]

\* HeatSheet.__init__
HeatSheet_init(fname) ==
    HeatSheet_open([file_name |-> NoName, pdf_data |-> pdf_open(NoName),
                    teams |-> None, cuts |-> None, ind |-> None, rel |-> None,
                    scans |-> ZeroScans, raised |-> ""], fname)

\* The grammars on the pages of the input files, computed once per page
\* text and cut list
PageTexts == UNION { { Files[p][k] : k \in 1..Len(Files[p]) } : p \in Paths }
FileCuts  ==
    { SortedList(UNION { Cut_findall(Files[p][k]) : k \in 1..Len(Files[p]) }) :
        p \in Paths }
CutsOnPage == [text \in PageTexts |-> Cut_findall(text)]
IndividualOnPage ==
    [text \in PageTexts, cuts \in FileCuts |-> IndividualSwim_findall(text, cuts)]
RelayOnPage ==
    [text \in PageTexts, cuts \in FileCuts |-> RelaySwim_findall(text, cuts)]

\* HeatSheet.cuts: the end of a scan
CutsScanned(o, list) ==
    Ok([o EXCEPT !.cuts = Some(list), !.scans.cuts = Counted(@)], list)

\* HeatSheet.cuts
HeatSheet_cuts(o) ==
    IF Truthy(o.cuts) THEN Ok(o, o.cuts.v)
    ELSE CutsScanned(o, SortedList(UNION { CutsOnPage[get_text(o.pdf_data, pg)] :
                                              pg \in 0..(pageCount(o.pdf_data) - 1) }))

\* the page loop of individual_swims / relay_swims from page pg on; every
\* page reads self.cuts (c) before it calls findall (f)
RECURSIVE SwimsFrom(_, _, _, _)

SwimsAdd(o, f, pg, swims, kind) ==
    IF f.raised # "" THEN Raised(o, f.raised)
    ELSE SwimsFrom(o, pg + 1, swims \o f.swims, kind)

SwimsPage(c, pg, swims, kind) ==
    SwimsAdd(c.o,
             IF kind = "relay" THEN RelayOnPage[get_text(c.o.pdf_data, pg), c.val]
             ELSE IndividualOnPage[get_text(c.o.pdf_data, pg), c.val],
             pg, swims, kind)

SwimsFrom(o, pg, swims, kind) ==
    IF pg >= pageCount(o.pdf_data) THEN Ok(o, swims)
    ELSE SwimsPage(HeatSheet_cuts(o), pg, swims, kind)

IndividualScanned(r) ==
    IF r.raised # "" THEN r
    ELSE Ok([r.o EXCEPT !.ind = Some(r.val), !.scans.ind = Counted(@)], r.val)

\* HeatSheet.individual_swims
HeatSheet_individual_swims(o) ==
    IF Truthy(o.ind) THEN Ok(o, o.ind.v)
    ELSE IndividualScanned(SwimsFrom(o, 0, <<>>, "individual"))

RelayScanned(r) ==
    IF r.raised # "" THEN r
    ELSE Ok([r.o EXCEPT !.rel = Some(r.val), !.scans.rel = Counted(@)], r.val)

\* HeatSheet.relay_swims
HeatSheet_relay_swims(o) ==
    IF Truthy(o.rel) THEN Ok(o, o.rel.v)
    ELSE RelayScanned(SwimsFrom(o, 0, <<>>, "relay"))

\* HeatSheet.teams, once both collections are read: the codes of the distinct
\* Team objects (equal when code and lsc are), sorted
TeamsListed(o, list) ==
    Ok([o EXCEPT !.teams = Some(list), !.scans.teams = Counted(@)], list)

TeamsOf(i, r) ==
    IF r.raised # "" THEN r
    ELSE TeamsListed(r.o, SortedCodes({ i.val[k].team : k \in 1..Len(i.val) }
                                      \cup { r.val[k].team : k \in 1..Len(r.val) }))

TeamsAfterIndividual(i) ==
    IF i.raised # "" THEN i ELSE TeamsOf(i, HeatSheet_relay_swims(i.o))

\* HeatSheet.teams
HeatSheet_teams(o) ==
    IF Truthy(o.teams) THEN Ok(o, o.teams.v)
    ELSE TeamsAfterIndividual(HeatSheet_individual_swims(o))

\* a filter that takes every code that starts with the target
TeamMatchesPrefix(swim, team_name) ==
    /\ Len(swim.team.code) >= Len(team_name)
    /\ SubSeq(swim.team.code, 1, Len(team_name)) = team_name

\* "swim.team.code == team_name"
TeamMatches(swim, team_name) == swim.team.code = team_name

\* the page loop of highlight_team from page pg on.  cx holds team_name,
\* pages and action; log keeps, per page visited, the swims parsed, those
\* chosen and the strings handed to the annotation step
RECURSIVE HighlightFrom(_, _, _, _, _)

Stopped(o, e, total_matches, log) ==
    [o |-> [o EXCEPT !.raised = e], raised |-> e,
     total_matches |-> total_matches, log |-> log]

OnPage(pg, added) ==
    { [page |-> pg, kind |-> a.kind, rect |-> a.rect, val |-> a.val] : a \in added }

\* "if matched_swims:" and the call of __annotate_matching_data
PageAnnotated(o, pg, cx, total_matches, log, parsed, chosen, matched_swims) ==
    HighlightFrom(
        IF matched_swims # <<>>
        THEN [o EXCEPT !.pdf_data.annots = @ \cup
                OnPage(pg, HS_annotate_matching_data(
                              [val \in { matched_swims[k] : k \in 1..Len(matched_swims) } |->
                                 search_for(get_text(o.pdf_data, pg), val)],
                              matched_swims, cx.action).added)]
        ELSE o,
        pg + 1, cx, total_matches + Len(matched_swims),
        Append(log, [page |-> pg, parsed |-> parsed, chosen |-> chosen,
                     matched_swims |-> matched_swims]))

PageChosen(o, pg, cx, total_matches, log, parsed, chosen) ==
    PageAnnotated(o, pg, cx, total_matches, log, parsed, chosen,
                  [k \in 1..Len(chosen) |-> Swim_str(chosen[k])])

\* matched_swims = [f"{swim}" for swim in relay_swims + individual_swims
\*                  if swim.team.code == team_name]
PageParsed(o, pg, cx, total_matches, log, individual_swims, relay_swims) ==
    IF relay_swims.raised # "" THEN Stopped(o, relay_swims.raised, total_matches, log)
    ELSE PageChosen(o, pg, cx, total_matches, log,
                    relay_swims.swims \o individual_swims.swims,
                    SelectSeq(relay_swims.swims \o individual_swims.swims,
                              LAMBDA swim : TeamMatches(swim, cx.team_name)))

PageRelay(c, pg, cx, total_matches, log, individual_swims) ==
    PageParsed(c.o, pg, cx, total_matches, log, individual_swims,
               RelayOnPage[get_text(c.o.pdf_data, pg), c.val])

PageIndividual(o, pg, cx, total_matches, log, individual_swims) ==
    IF individual_swims.raised # ""
    THEN Stopped(o, individual_swims.raised, total_matches, log)
    ELSE PageRelay(HeatSheet_cuts(o), pg, cx, total_matches, log, individual_swims)

PageCuts(c, pg, cx, total_matches, log) ==
    PageIndividual(c.o, pg, cx, total_matches, log,
                   IndividualOnPage[get_text(c.o.pdf_data, pg), c.val])

HighlightFrom(o, pg, cx, total_matches, log) ==
    IF pg >= pageCount(o.pdf_data)
    THEN [o |-> o, raised |-> "", total_matches |-> total_matches, log |-> log]
    ELSE IF cx.pages # {} /\ pg \notin cx.pages
    THEN HighlightFrom(o, pg + 1, cx, total_matches, log)
    ELSE PageCuts(HeatSheet_cuts(o), pg, cx, total_matches, log)

\* what save_as writes for a pass: the document with the annotations the
\* handle holds
OutputFile(o, team_name) ==
    [input |-> o.file_name, team |-> team_name, annots |-> o.pdf_data.annots]

NoOutput == [input |-> NoName, team |-> <<>>, annots |-> {}]
NoRet == [op |-> "none"]

(***************************************************************************)
(* Operations on the HeatSheet                                             *)
(***************************************************************************)
\* the four cached collections
Caches(o) == <<o.teams, o.cuts, o.ind, o.rel>>

\* HeatSheet.open(fname); ret keeps the path and the caches the object had
\* when it was called
Open(fname) ==
    /\ hs.raised = ""
    /\ hs' = HeatSheet_open(hs, fname)
    /\ ret' = [op |-> "open", arg |-> fname, from |-> hs.file_name,
               caches |-> Caches(hs)]
    /\ UNCHANGED <<parse, disk, annot, rem, run>>

Read(prop, r) ==
    /\ hs.raised = ""
    /\ hs' = r.o
    /\ ret' = [op |-> prop, raised |-> r.raised, val |-> r.val]
    /\ UNCHANGED <<parse, disk, annot, rem, run>>

ReadCuts  == Read("cuts", HeatSheet_cuts(hs))
ReadInd   == Read("individual_swims", HeatSheet_individual_swims(hs))
ReadRel   == Read("relay_swims", HeatSheet_relay_swims(hs))
ReadTeams == Read("teams", HeatSheet_teams(hs))

\* the end of highlight_team: save_as(output_path), then open(self.file_name)
\* a pass that goes on with the annotated document
AfterSaveKept(o) == o

\* the end of highlight_team after save_as: self.open(self.file_name)
AfterSave(o) == HeatSheet_open(o, o.file_name)

\* the end of highlight_team: save_as(output_path), then open(self.file_name)
PassDone(r, cx) ==
    /\ ret' = [op |-> "highlight_team", raised |-> r.raised, team |-> cx.team_name,
               pages |-> cx.pages, action |-> cx.action,
               total_matches |-> r.total_matches, log |-> r.log]
    /\ IF r.raised # ""
       THEN hs' = r.o /\ UNCHANGED disk
       ELSE /\ disk' = OutputFile(r.o, cx.team_name)
            /\ hs' = AfterSave(r.o)

\* HeatSheet.highlight_team
HighlightTeam(team_name, pages, action) ==
    /\ hs.raised = ""
    /\ PassDone(HighlightFrom(hs, 0, [team_name |-> team_name, pages |-> pages,
                                      action |-> action], 0, <<>>),
                [team_name |-> team_name, pages |-> pages, action |-> action])
    /\ UNCHANGED <<parse, annot, rem, run>>

(***************************************************************************)
(* pdf_highlighter.highlight_team                                          *)
(***************************************************************************)
\* regexString = r"((\w{1,5})-([A-Z]{2})\W*((?:\d*:)?\d{2}.\d{2}|NT)\W*(\d+)
\*                 \W*([A-Z]\w*,\W[A-Z]\w*\W[A-Z]?)\W*(\d))"
regexString ==
    CatAll(<<Rep(Chr(Word), 1, 5), Chr({"-"}), Rep(Chr(Upper), 2, 2),
             Star(NChr(Word)),
             Alt(CatAll(<<Opt(Cat(Star(Chr(Digit)), Chr({":"}))),
                          Rep(Chr(Digit), 2, 2), Dot, Rep(Chr(Digit), 2, 2)>>),
                 Lit(<<"N", "T">>)),
             Star(NChr(Word)), Plus(Chr(Digit)), Star(NChr(Word)),
             CatAll(<<Chr(Upper), Star(Chr(Word)), Chr({","}), NChr(Word),
                      Chr(Upper), Star(Chr(Word)), NChr(Word), Opt(Chr(Upper))>>),
             Star(NChr(Word)), Chr(Digit)>>)

\* the text before the first "-": group 2, (\w{1,5}), of a match, which opens
\* the match and is followed by the "-" of the pattern
RECURSIVE BeforeDash(_)
BeforeDash(cs) ==
    IF cs = <<>> \/ Head(cs) = "-" THEN <<>> ELSE <<Head(cs)>> \o BeforeDash(Tail(cs))

\* re.findall(regexString, text): the tuples of groups, of which line[0] (the
\* whole match) and line[1] (the team code) are kept, as line[1] and line[2]
PageLines(text) ==
    LET ms == findall(regexString, text)
    IN  [k \in 1..Len(ms) |-> <<ms[k], BeforeDash(ms[k])>>]

LinesOnPage == [text \in PageTexts |-> PageLines(text)]

\* search_for_text
search_for_text(lines, search_str) ==
    SelectSeq(lines, LAMBDA line : line[2] = search_str)

\* the page loop of pdf_highlighter.highlight_team from page pg on
RECURSIVE PdfHighlightFrom(_, _, _, _, _)

\* annotate_matching_data(page, matched_values, action) searches val[0]
PdfMatched(doc, pg, cx, total_matches, log, page_lines, matched_values, values) ==
    PdfHighlightFrom(
        [doc EXCEPT !.annots = @ \cup
            OnPage(pg, PH_annotate_matching_data(
                          [val \in { values[k] : k \in 1..Len(values) } |->
                             search_for(get_text(doc, pg), val)],
                          values, cx.action).added)],
        pg + 1, cx, total_matches + Len(matched_values),
        Append(log, [page |-> pg, parsed |-> page_lines, chosen |-> matched_values,
                     matched_swims |-> values]))

PdfSearched(doc, pg, cx, total_matches, log, page_lines, matched_values) ==
    PdfMatched(doc, pg, cx, total_matches, log, page_lines, matched_values,
               [k \in 1..Len(matched_values) |-> matched_values[k][1]])

PdfPage(doc, pg, cx, total_matches, log, page_lines) ==
    PdfSearched(doc, pg, cx, total_matches, log, page_lines,
                search_for_text(page_lines, cx.team_name))

PdfHighlightFrom(doc, pg, cx, total_matches, log) ==
    IF pg >= pageCount(doc)
    THEN [doc |-> doc, total_matches |-> total_matches, log |-> log]
    ELSE IF cx.pages # {} /\ pg \notin cx.pages
    THEN PdfHighlightFrom(doc, pg + 1, cx, total_matches, log)
    ELSE PdfPage(doc, pg, cx, total_matches, log, LinesOnPage[get_text(doc, pg)])

PdfPassDone(r, input_file, cx) ==
    /\ ret' = [op |-> "pdf_highlighter.highlight_team", raised |-> "",
               team |-> cx.team_name, pages |-> cx.pages, action |-> cx.action,
               total_matches |-> r.total_matches, log |-> r.log]
    /\ disk' = [input |-> input_file, team |-> cx.team_name, annots |-> r.doc.annots]

\* pdf_highlighter.highlight_team(input_file, team_name, pages, action)
PdfHighlightTeam(input_file, team_name, pages, action) ==
    /\ PdfPassDone(PdfHighlightFrom(pdf_open(input_file), 0,
                                    [team_name |-> team_name, pages |-> pages,
                                     action |-> action], 0, <<>>),
                   input_file,
                   [team_name |-> team_name, pages |-> pages, action |-> action])
    /\ UNCHANGED <<parse, hs, annot, rem, run>>

\* the actions and page filters the passes on whole files are run with
PassActions == {"Highlight", "Underline"}
PassPages   == {{}, {0}}

NoAnnot == [op |-> "idle"]
NoRem == [op |-> "idle"]
NoRun == [pc |-> "idle"]

Init ==
    /\ hs \in { HeatSheet_init(p) : p \in Paths }
    /\ ret = NoRet
    /\ disk = NoOutput
    /\ parse = NoParse /\ annot = NoAnnot /\ rem = NoRem /\ run = NoRun

Next ==
    \/ \E p \in Paths : Open(p)
    \/ ReadCuts
    \/ ReadInd
    \/ ReadRel
    \/ ReadTeams
    \/ \E t \in TeamNames, pg \in PassPages, a \in PassActions : HighlightTeam(t, pg, a)
    \/ \E t \in TeamNames, pg \in PassPages, a \in PassActions :
          PdfHighlightTeam(hs.file_name, t, pg, a)

Spec == Init /\ [][Next]_vars

(***************************************************************************)
(* The grammars on their own                                               *)
(***************************************************************************)
InitParse ==
    /\ parse \in ParseInputs
    /\ hs = HeatSheet_init("meetA.pdf") /\ ret = NoRet /\ disk = NoOutput
    /\ annot = NoAnnot /\ rem = NoRem /\ run = NoRun

NextParse ==
    \/ ApplyCut
    \/ ApplyIndividual
    \/ ApplyRelay

SpecParse == InitParse /\ [][NextParse]_vars

(***************************************************************************)
(* The annotation step on its own: one matched value, the boxes            *)
(* page.search_for returned for it, and an action tag                      *)
(***************************************************************************)
MaxAreas == 3

\* top edges (units of 1e-4): 9.9999, 10.0, 10.0001 and a line further down
Tops == {99999, 100000, 100001, 220000}
Spans == { <<0, 100000>>, <<100000, 300000>>, <<300000, 600000>> }

Areas ==
    { [x0 |-> sp[1], y0 |-> y, x1 |-> sp[2], y1 |-> y + 120000] :
        sp \in Spans, y \in Tops }

AnnotInputs ==
    { [op |-> "input", areas |-> as, action |-> a] :
        as \in SeqsUpTo(Areas, MaxAreas), a \in Actions }

TheValue == <<"v">>

\* HeatSheet.highlight_team's annotation of one value on a page
AnnotateHeatSheet ==
    /\ annot.op = "input"
    /\ annot' = [annot EXCEPT !.op = "HeatSheet"] @@
                [added |-> HS_annotate_matching_data(
                               [val \in {TheValue} |-> annot.areas],
                               <<TheValue>>, annot.action).added]
    /\ UNCHANGED <<parse, hs, ret, disk, rem, run>>

\* pdf_highlighter.highlight_team's annotation of one value on a page
AnnotatePdfHighlighter ==
    /\ annot.op = "input"
    /\ annot' = [annot EXCEPT !.op = "pdf_highlighter"] @@
                [added |-> PH_annotate_matching_data(
                               [val \in {TheValue} |-> annot.areas],
                               <<TheValue>>, annot.action).added]
    /\ UNCHANGED <<parse, hs, ret, disk, rem, run>>

InitAnnot ==
    /\ annot \in AnnotInputs
    /\ hs = HeatSheet_init("meetA.pdf") /\ ret = NoRet /\ disk = NoOutput
    /\ parse = NoParse /\ rem = NoRem /\ run = NoRun

NextAnnot ==
    \/ AnnotateHeatSheet
    \/ AnnotatePdfHighlighter

SpecAnnot == InitAnnot /\ [][NextAnnot]_vars

(***************************************************************************)
(* pdf_highlighter.remove_highlght                                         *)
(***************************************************************************)
MaxRemPages == 2
MaxAnnots   == 3
MaxRuns     == 2

\* a document: per page, the list of its annotations (firstAnnot, next, ...)
RemDocs ==
    UNION { [1..n -> { [k \in 1..m |-> k] : m \in 0..MaxAnnots }] : n \in 1..MaxRemPages }

\* What reading annot.next gives once page.deleteAnnot(annot) has deleted
\* annot: the annotation object is no longer valid, and the library may still
\* deliver its successor, deliver nothing, or raise.
AfterDelete == {"next", "none", "raise"}

\* annot = page.firstAnnot; while annot: annot_found += 1;
\* page.deleteAnnot(annot); annot = annot.next
RECURSIVE DeleteLoop(_, _, _)
DeleteLoop(annots, annot_found, after) ==
    IF annots = <<>>
    THEN [annots |-> annots, annot_found |-> annot_found, raised |-> FALSE]
    ELSE CASE after = "next"  -> DeleteLoop(Tail(annots), annot_found + 1, after)
           [] after = "none"  -> [annots |-> Tail(annots),
                                  annot_found |-> annot_found + 1, raised |-> FALSE]
           [] after = "raise" -> [annots |-> Tail(annots),
                                  annot_found |-> annot_found + 1, raised |-> TRUE]

\* the page loop of remove_highlght from page pg on
RECURSIVE RemoveFrom(_, _, _, _, _)

RemovePage(doc, pg, pages, after, done) ==
    IF done.raised
    THEN [doc |-> doc, annot_found |-> done.annot_found, raised |-> TRUE]
    ELSE RemoveFrom([doc EXCEPT ![pg + 1] = done.annots], pg + 1, pages,
                    done.annot_found, after)

RemoveFrom(doc, pg, pages, annot_found, after) ==
    IF pg >= Len(doc)
    THEN [doc |-> doc, annot_found |-> annot_found, raised |-> FALSE]
    ELSE IF pages # {} /\ pg \notin pages
    THEN RemoveFrom(doc, pg + 1, pages, annot_found, after)
    ELSE RemovePage(doc, pg, pages, after, DeleteLoop(doc[pg + 1], annot_found, after))

remove_highlght(doc, pages, after) == RemoveFrom(doc, 0, pages, 0, after)

RemInputs ==
    { [op |-> "input", doc |-> d, pages |-> pg, runs |-> 0, annot_found |-> 0] :
        d \in RemDocs, pg \in PagesArgs }

\* one run of remove_highlght on the document, written over it unless the
\* run raised
RunDone(r) ==
    rem' = IF r.raised THEN [rem EXCEPT !.op = "raised"]
           ELSE [rem EXCEPT !.op = "removed", !.doc = r.doc, !.runs = @ + 1,
                            !.annot_found = r.annot_found]

RemoveRun(after) ==
    /\ rem.op \in {"input", "removed"}
    /\ rem.runs < MaxRuns
    /\ RunDone(remove_highlght(rem.doc, rem.pages, after))
    /\ UNCHANGED <<parse, hs, ret, disk, annot, run>>

InitRemove ==
    /\ rem \in RemInputs
    /\ hs = HeatSheet_init("meetA.pdf") /\ ret = NoRet /\ disk = NoOutput
    /\ parse = NoParse /\ annot = NoAnnot /\ run = NoRun

NextRemove == \E after \in AfterDelete : RemoveRun(after)

SpecRemove == InitRemove /\ [][NextRemove]_vars

(***************************************************************************)
(* A run over files and teams: main of heat_sheet_highlighter.py and       *)
(* process_data of pdf_highlighter.py.  held counts the document handles   *)
(* a variable of the program refers to (they are open), dropped those no   *)
(* variable refers to any more and close() was never called on.            *)
(***************************************************************************)
MaxFiles == 2

Programs == {"heat_sheet_highlighter", "pdf_highlighter"}

RunInputs ==
    { [prog |-> g, files |-> fs, pages |-> pg, action |-> a, pc |-> "file",
       teams |-> None, todo |-> <<>>, held |-> 0, dropped |-> 0, outputs |-> <<>>] :
        g \in Programs, fs \in SeqsUpTo(Paths, MaxFiles) \ {<<>>},
        pg \in PassPages, a \in PassActions }

RunArgs(team_name) ==
    [team_name |-> team_name, pages |-> run.pages, action |-> run.action]

\* main: heat_sheet = HeatSheet(input_file); the object of the file before is
\* no longer referred to
MainOpen ==
    /\ run.prog = "heat_sheet_highlighter" /\ run.pc = "file" /\ run.files # <<>>
    /\ hs' = HeatSheet_init(Head(run.files))
    /\ run' = [run EXCEPT !.files = Tail(@), !.pc = "teams",
                          !.dropped = @ + run.held, !.held = 1]
    /\ UNCHANGED <<parse, ret, disk, annot, rem>>

MainTeamsRead(r) ==
    /\ hs' = r.o
    /\ run' = IF r.raised # "" THEN [run EXCEPT !.pc = "raised"]
              ELSE [run EXCEPT !.pc = "pass", !.teams = Some(r.val), !.todo = r.val]

\* main: if not teams: teams = heat_sheet.teams
MainTeams ==
    /\ run.prog = "heat_sheet_highlighter" /\ run.pc = "teams"
    /\ IF Truthy(run.teams)
       THEN run' = [run EXCEPT !.pc = "pass", !.todo = run.teams.v] /\ UNCHANGED hs
       ELSE MainTeamsRead(HeatSheet_teams(hs))
    /\ UNCHANGED <<parse, ret, disk, annot, rem>>

\* highlight_team ends with save_as and open: the handle the pass worked on
\* is replaced by a new one and never closed
MainPassDone(r, team_name) ==
    IF r.raised # ""
    THEN hs' = r.o /\ run' = [run EXCEPT !.pc = "raised"] /\ UNCHANGED disk
    ELSE /\ disk' = OutputFile(r.o, team_name)
         /\ hs' = AfterSave(r.o)
         /\ run' = [run EXCEPT !.todo = Tail(@), !.dropped = @ + 1,
                               !.outputs = Append(@, OutputFile(r.o, team_name))]

\* main: for team in teams: heat_sheet.highlight_team(team, pages, action)
MainPass ==
    /\ run.prog = "heat_sheet_highlighter" /\ run.pc = "pass" /\ run.todo # <<>>
    /\ MainPassDone(HighlightFrom(hs, 0, RunArgs(Head(run.todo)), 0, <<>>),
                    Head(run.todo))
    /\ UNCHANGED <<parse, ret, annot, rem>>

\* the teams of a file are done: the next file, or the end of main
MainFileDone ==
    /\ run.prog = "heat_sheet_highlighter" /\ run.pc = "pass" /\ run.todo = <<>>
    /\ run' = [run EXCEPT !.pc = IF run.files = <<>> THEN "done" ELSE "file"]
    /\ UNCHANGED <<parse, hs, ret, disk, annot, rem>>

\* get_teams: the set of line[1] over the pages
get_teams(input_file) ==
    UNION { { LinesOnPage[Files[input_file][k]][n][2] :
                n \in 1..Len(LinesOnPage[Files[input_file][k]]) } :
            k \in 1..Len(Files[input_file]) }

\* process_data: with pdf_open(input_file) as pdf_input_file: teams =
\* get_teams(pdf_input_file); teams = list(teams); teams.sort()
PdfStart ==
    /\ run.prog = "pdf_highlighter" /\ run.pc = "file" /\ run.files # <<>>
    /\ run' = [run EXCEPT !.pc = "pass", !.held = @ + 1,
                          !.teams = Some(SortedList(get_teams(Head(run.files)))),
                          !.todo = SortedList(get_teams(Head(run.files)))]
    /\ UNCHANGED <<parse, hs, ret, disk, annot, rem>>

\* highlight_team: pdf_input_file = pdf_open(input_file)
PdfPassOpen ==
    /\ run.prog = "pdf_highlighter" /\ run.pc = "pass" /\ run.todo # <<>>
    /\ run' = [run EXCEPT !.pc = "inpass", !.held = @ + 1]
    /\ UNCHANGED <<parse, hs, ret, disk, annot, rem>>

PdfPassSaved(r, team_name) ==
    /\ disk' = [input |-> Head(run.files), team |-> team_name, annots |-> r.doc.annots]
    /\ run' = [run EXCEPT !.pc = "pass", !.todo = Tail(@),
                          !.held = @ - 1, !.dropped = @ + 1,
                          !.outputs = Append(@, [input |-> Head(run.files),
                                                 team |-> team_name,
                                                 annots |-> r.doc.annots])]

\* highlight_team: the page loop, the save, and the return, which leaves the
\* handle without a close()
PdfPassSave ==
    /\ run.prog = "pdf_highlighter" /\ run.pc = "inpass"
    /\ PdfPassSaved(PdfHighlightFrom(pdf_open(Head(run.files)), 0,
                                     RunArgs(Head(run.todo)), 0, <<>>),
                    Head(run.todo))
    /\ UNCHANGED <<parse, hs, ret, annot, rem>>

\* process_data: the end of the with block closes its handle
PdfEnd ==
    /\ run.prog = "pdf_highlighter" /\ run.pc = "pass" /\ run.todo = <<>>
    /\ run' = [run EXCEPT !.files = Tail(@), !.held = @ - 1,
                          !.pc = IF Tail(run.files) = <<>> THEN "done" ELSE "file"]
    /\ UNCHANGED <<parse, hs, ret, disk, annot, rem>>

\* the garbage collector finalizes a handle nothing refers to
Finalize ==
    /\ run.pc # "idle" /\ run.dropped > 0
    /\ run' = [run EXCEPT !.dropped = @ - 1]
    /\ UNCHANGED <<parse, hs, ret, disk, annot, rem>>

InitRun ==
    /\ run \in RunInputs
    /\ hs = HeatSheet_init("meetA.pdf") /\ ret = NoRet /\ disk = NoOutput
    /\ parse = NoParse /\ annot = NoAnnot /\ rem = NoRem

NextRun ==
    \/ MainOpen
    \/ MainTeams
    \/ MainPass
    \/ MainFileDone
    \/ PdfStart
    \/ PdfPassOpen
    \/ PdfPassSave
    \/ PdfEnd
    \/ Finalize

SpecRun == InitRun /\ [][NextRun]_vars

(***************************************************************************)
(* Properties of the grammars (checked on SpecParse)                       *)
(***************************************************************************)
HeaderOnly(l) == l.hdr # 0 /\ l.recs = <<>>

DeclaredCodes(l) == { CutPairs[l.pairs[k]].code : k \in 1..Len(l.pairs) }

\* C1: Cut.findall on a page text made of one event-header line followed by
\* (code line, time line) pairs returns exactly the codes of those pairs: no
\* word of the header line is returned and no declared code is missing.
CutFindallExact ==
    (parse.op = "Cut.findall" /\ HeaderOnly(parse.layout))
        => parse.codes = DeclaredCodes(parse.layout)

Has(cuts, code) == \E k \in 1..Len(cuts) : cuts[k] = code

IndividualOnly(l) ==
    /\ l.hdr = 0
    /\ l.recs # <<>>
    /\ \A k \in 1..Len(l.recs) : Records[l.recs[k]].kind = "individual"

\* the record printed as r came back as swim, field by field
SameIndividual(swim, r) ==
    /\ Team_str(swim.team) = r.team
    /\ swim.time = r.time
    /\ swim.age = r.age
    /\ swim.swimmer = r.swimmer
    /\ swim.lane = r.lane
    /\ swim.cut_code = r.cut

\* C2: with a declared cut list that contains "AAAA", IndividualSwim.findall
\* returns one record per printed individual record, each field equal to the
\* text of its line and cut_code equal to the whole trailing cut-code line
\* (for "ABCDE-XY\n1:05.44\n 15\nDoe, Jane M\n3\nAAAA\n": cut_code "AAAA").
IndividualFieldsExact ==
    (/\ parse.op = "IndividualSwim.findall"
     /\ IndividualOnly(parse.layout)
     /\ Has(parse.cuts, <<"A","A","A","A">>)
     /\ \A k \in 1..Len(parse.layout.recs) :
           Records[parse.layout.recs[k]].cut \in {<<>>, <<"A","A","A","A">>})
        => /\ parse.found.raised = ""
           /\ Len(parse.found.swims) = Len(parse.layout.recs)
           /\ \A k \in 1..Len(parse.layout.recs) :
                 SameIndividual(parse.found.swims[k], Records[parse.layout.recs[k]])

\* the page text "A\n:58.21\nXYZ-QR\n2\n"
RelayExample(l) == l.hdr = 0 /\ l.recs = <<5>>

\* C3: for every declared cut list, the empty one included,
\* RelaySwim.findall on "A\n:58.21\nXYZ-QR\n2\n" does not raise and returns
\* exactly one relay record: letter A, time :58.21, team XYZ-QR, lane 2, no
\* cut code.
RelayNoCutNoRaise ==
    (parse.op = "RelaySwim.findall" /\ RelayExample(parse.layout))
        => /\ parse.found.raised = ""
           /\ Len(parse.found.swims) = 1
           /\ parse.found.swims[1].letter = <<"A">>
           /\ parse.found.swims[1].time = <<":","5","8",".","2","1">>
           /\ Team_str(parse.found.swims[1].team) = <<"X","Y","Z","-","Q","R">>
           /\ parse.found.swims[1].lane = <<"2">>
           /\ parse.found.swims[1].cut_code = <<>>

\* C4: round trip: for every substring s the composite individual or relay
\* pattern matches in a page text, under any declared cut list,
\* str(from_string(s, cuts)) = s.
RoundTrip ==
    parse.op \in {"IndividualSwim.findall", "RelaySwim.findall"}
        => /\ parse.found.raised = ""
           /\ Len(parse.strs) = Len(parse.matched)
           /\ \A k \in 1..Len(parse.matched) : parse.strs[k] = parse.matched[k]

\* the fixed-field pattern of the grammar applied, without cut alternation
FixedPattern == IF parse.op = "RelaySwim.findall" THEN relay_swim ELSE individual_swim

\* the matched substring is the fixed fields alone: the optional alternation
\* matched nothing
NoCutLine(string) == fullmatch(Cat(FixedPattern, Opt(Chr({NL}))), string)

\* C11: for every matched individual or relay substring in which the optional
\* cut-code alternation matched nothing, the record from_string returns has
\* an empty cut_code, whatever letters its fields hold and whatever the
\* declared cut list is, and its canonical string has no cut-code line.
NoCutLineNoCutCode ==
    (/\ parse.op \in {"IndividualSwim.findall", "RelaySwim.findall"}
     /\ parse.found.raised = "")
        => \A k \in 1..Len(parse.matched) :
              NoCutLine(parse.matched[k])
                 => /\ parse.found.swims[k].cut_code = <<>>
                    /\ NoCutLine(parse.strs[k])

(***************************************************************************)
(* Properties of the passes and of the HeatSheet object (checked on Spec)  *)
(***************************************************************************)
PassOps == {"highlight_team", "pdf_highlighter.highlight_team"}

\* the team code of a parsed record, and the string searched for it
CodeOf(op, rec) == IF op = "highlight_team" THEN rec.team.code ELSE rec[2]
StrOf(op, rec)  == IF op = "highlight_team" THEN Swim_str(rec) ELSE rec[1]

Selected(e, k) == \E j \in 1..Len(e.chosen) : e.chosen[j] = e.parsed[k]

LogEntries == { ret.log[n] : n \in 1..Len(ret.log) }

\* C5: in a highlight pass for target team T a parsed record is selected for
\* annotation if and only if its team code equals T, and every annotation of
\* the saved output was made for a record of team T parsed on that page; a
\* record whose code shares a prefix with T is neither selected nor annotated.
TeamFilterExact ==
    ret.op \in PassOps =>
        /\ \A e \in LogEntries : \A k \in 1..Len(e.parsed) :
              Selected(e, k) <=> CodeOf(ret.op, e.parsed[k]) = ret.team
        /\ ret.raised = "" =>
              \A a \in disk.annots :
                 /\ \E e \in LogEntries : \E k \in 1..Len(e.parsed) :
                       /\ e.page = a.page
                       /\ a.val = StrOf(ret.op, e.parsed[k])
                       /\ CodeOf(ret.op, e.parsed[k]) = ret.team
                 /\ \A e \in LogEntries : \A k \in 1..Len(e.parsed) :
                       (e.page = a.page /\ a.val = StrOf(ret.op, e.parsed[k]))
                          => CodeOf(ret.op, e.parsed[k]) = ret.team

\* a pass for "ABCDE" over a page where records of ABCDE and of ABCDF were
\* parsed, with annotations saved
TeamFilterWitness ==
    /\ ret.op = "highlight_team"
    /\ ret.raised = ""
    /\ ret.team = <<"A","B","C","D","E">>
    /\ disk.annots # {}
    /\ \E e \in LogEntries :
          /\ \E k \in 1..Len(e.parsed) : e.parsed[k].team.code = <<"A","B","C","D","F">>
          /\ \E k \in 1..Len(e.parsed) : e.parsed[k].team.code = <<"A","B","C","D","E">>
          /\ e.chosen # <<>>

\* the collections of a document, computed from its pages
DocCuts == [p \in Paths |->
    SortedList(UNION { CutsOnPage[Files[p][k]] : k \in 1..Len(Files[p]) })]
DocIndividual == [p \in Paths |->
    Concat([k \in 1..Len(Files[p]) |-> IndividualOnPage[Files[p][k], DocCuts[p]].swims])]
DocRelay == [p \in Paths |->
    Concat([k \in 1..Len(Files[p]) |-> RelayOnPage[Files[p][k], DocCuts[p]].swims])]
DocTeams == [p \in Paths |->
    SortedCodes({ DocIndividual[p][k].team : k \in 1..Len(DocIndividual[p]) }
                \cup { DocRelay[p][k].team : k \in 1..Len(DocRelay[p]) })]

DocCollection(prop, p) ==
    CASE prop = "cuts"             -> DocCuts[p]
      [] prop = "individual_swims" -> DocIndividual[p]
      [] prop = "relay_swims"      -> DocRelay[p]
      [] prop = "teams"            -> DocTeams[p]

Props == {"cuts", "individual_swims", "relay_swims", "teams"}

\* C6: open(p) with p the recorded path leaves the four cached collections
\* as they were, open(p) with another path clears all four, and a read after
\* the open returns the collection of the document that is open now.
OpenKeepsOrClears ==
    /\ ret.op = "open" =>
          IF ret.arg = ret.from THEN Caches(hs) = ret.caches
          ELSE Caches(hs) = <<None, None, None, None>>
    /\ (ret.op \in Props /\ ret.raised = "") =>
          ret.val = DocCollection(ret.op, hs.file_name)

\* another path was opened while all four collections were cached
OpenClearsWitness ==
    /\ ret.op = "open"
    /\ ret.arg # ret.from
    /\ \A n \in 1..4 : ret.caches[n].some /\ ret.caches[n].v # <<>>
    /\ Caches(hs) = <<None, None, None, None>>

\* C10: between two opens of different paths the scan that computes cuts
\* runs at most once however often the property is read, and so do the
\* computations of teams, individual_swims and relay_swims.
ScannedOnce ==
    /\ hs.scans.cuts <= 1
    /\ hs.scans.ind <= 1
    /\ hs.scans.rel <= 1
    /\ hs.scans.teams <= 1

(***************************************************************************)
(* Properties of the removal (checked on SpecRemove)                       *)
(***************************************************************************)
\* C7: after one run of remove_highlght no page of the document carries an
\* annotation, and a second run on the result deletes nothing and ends with
\* annot_found = 0 (stated here for runs without a page filter).
RemoveIdempotent ==
    (rem.op # "input" /\ rem.pages = {}) =>
        /\ rem.op = "removed"
        /\ \A pg \in 1..Len(rem.doc) : rem.doc[pg] = <<>>
        /\ rem.runs >= 2 => rem.annot_found = 0

(***************************************************************************)
(* Properties of the annotation step (checked on SpecAnnot)                *)
(***************************************************************************)
Least(S)    == CHOOSE x \in S : \A y \in S : x <= y
Greatest(S) == CHOOSE x \in S : \A y \in S : x >= y

\* the boxes of areas whose top edge rounds to y, in returned order
OnLine(areas, y) == SelectSeq(areas, LAMBDA a : Round3(a.y0) = y)

\* one rectangle per rounded top edge
Grouped(areas) ==
    { [x0 |-> Least({ OnLine(areas, y)[k].x0 : k \in 1..Len(OnLine(areas, y)) }),
       y0 |-> OnLine(areas, y)[1].y0,
       x1 |-> Greatest({ OnLine(areas, y)[k].x1 : k \in 1..Len(OnLine(areas, y)) }),
       y1 |-> OnLine(areas, y)[1].y1] :
        y \in { Round3(areas[k].y0) : k \in 1..Len(areas) } }

Annotated == annot.op \in {"HeatSheet", "pdf_highlighter"}

\* C8: both annotation steps emit exactly one rectangle per group of boxes
\* sharing a top edge rounded to 3 decimals, x0 the least x0 and x1 the
\* greatest x1 of the group, y0/y1 those of its first box; boxes with top
\* edges 10.0001, 10.0 and 9.9999 give a single rectangle.
LineGrouping ==
    (Annotated /\ annot.action \in {"Highlight", "Strikeout", "Frame"}) =>
        { a.rect : a \in annot.added } = Grouped(annot.areas)

\* C9: with the action Redact every box returned for the record is redacted
\* on its own, nothing is grouped, and no highlight annotation is added.
RedactEachBox ==
    (Annotated /\ annot.action = "Redact") =>
        /\ \A a \in annot.added : a.kind = "redact"
        /\ { a.rect : a \in annot.added } = { annot.areas[k] : k \in 1..Len(annot.areas) }

(***************************************************************************)
(* Properties of a run over files and teams (checked on SpecRun)           *)
(***************************************************************************)
\* C12: each per-team pass opens its own handle and the handle is closed
\* before the next pass starts: at every point of a run at most one handle on
\* the input document is open, and none is left open after the last pass.
HandlesOwned ==
    /\ run.held <= 1
    /\ run.pc = "done" => run.held = 0

LastOutput == run.outputs[Len(run.outputs)]

\* the annotations one pass for the team of the last output adds to the
\* document as its input path holds it
OwnAnnotations ==
    HighlightFrom(HeatSheet_init(LastOutput.input), 0, RunArgs(LastOutput.team),
                  0, <<>>).o.pdf_data.annots

\* C13: when highlight_team is called for a sequence of teams on one HeatSheet
\* object, the document saved for a team holds exactly the annotations of
\* that team's own pass, none of an earlier pass, and the object goes on with
\* the document as the input path holds it.
PassesIsolated ==
    (run.prog = "heat_sheet_highlighter" /\ run.pc = "pass" /\ run.outputs # <<>>) =>
        /\ LastOutput.annots = OwnAnnotations
        /\ hs.pdf_data = pdf_open(hs.file_name)

\* two passes of one run on one file, for different teams, both saved with
\* annotations, none of the earlier in the later
SecondPassWitness ==
    /\ run.prog = "heat_sheet_highlighter"
    /\ \E n \in 1..Len(run.outputs) : \E m \in (n + 1)..Len(run.outputs) :
          /\ run.outputs[n].input = run.outputs[m].input
          /\ run.outputs[n].team # run.outputs[m].team
          /\ run.outputs[n].annots # {}
          /\ run.outputs[m].annots # {}
          /\ run.outputs[n].annots \cap run.outputs[m].annots = {}

\* C14: the list HeatSheet.teams returns is sorted and has no duplicates, also
\* when two team tokens share the code and differ in the LSC; main runs at
\* most one pass, and writes each output file at most once, per team code.
TeamsSortedNoDuplicates ==
    run.prog = "heat_sheet_highlighter" =>
        /\ run.teams.some =>
              \A n \in 1..Len(run.teams.v) : \A m \in (n + 1)..Len(run.teams.v) :
                 StrLess(run.teams.v[n], run.teams.v[m])
        /\ \A n \in 1..Len(run.outputs) : \A m \in (n + 1)..Len(run.outputs) :
              run.outputs[n].input = run.outputs[m].input
                 => run.outputs[n].team # run.outputs[m].team

====
